---- MODULE Spec2Model ----
(***************************************************************************)
(* opencode-checkpoint: the checkpoint store (database.ts) and the restore *)
(* resolver (restore.ts), with the host's session client as environment.   *)
(*                                                                         *)
(* An async method runs atomically from its call to its first await and    *)
(* from one await to the next (single-threaded event loop), so each such   *)
(* stretch of code is one action.                                          *)
(***************************************************************************)
EXTENDS Integers, Sequences, FiniteSets, TLC

VARIABLES
    checkpoints,   \* rows of table checkpoints (database.ts)
    lastId,        \* AUTOINCREMENT high-water mark of the table
    now,           \* the clock read by Date.now()
    messages,      \* host: live message ids of every session
    msgSeq,        \* host: number of message ids handed out
    forkSeq,       \* host: number of forked sessions created
    calls          \* RestoreManager calls that have not been handed back to
                   \* their caller, in the order they were made

vars == <<checkpoints, lastId, now, messages, msgSeq, forkSeq, calls>>

----------------------------------------------------------------------------
(* Bounds of the model *)

MaxCheckpoints == 1   \* rows ever inserted
MaxNamed == 2         \* rows ever inserted where names are resolved
MaxStored == 3        \* rows ever inserted where the store is called alone
MaxMessages == 2      \* messages the host ever appends, and the largest
                      \* messageCount passed to createCheckpoint
MaxForks == 1         \* sessions the host ever forks

Sessions == {"s1", "s2"}
Names == {"Cp", "cp"}
CheckpointIds == 1..(MaxCheckpoints + 1)

\* what a rejected collaborator promise carries: an Error, or any other value
Thrown ==
    { [isError |-> TRUE,  message |-> "Network timeout"],
      [isError |-> TRUE,  message |-> "Request failed\nstatus 503"],
      [isError |-> FALSE, value |-> "offline"] }

NULL == [null |-> TRUE]

----------------------------------------------------------------------------
(* Text *)

Digit(d) == SubSeq("0123456789", d + 1, d + 1)

\* a number interpolated into a template literal
RECURSIVE NumberToString(_)
NumberToString(n) ==
    IF n < 0 THEN "-" \o NumberToString(-n)
    ELSE IF n < 10 THEN Digit(n)
    ELSE NumberToString(n \div 10) \o Digit(n % 10)

Contains(s, t) ==
    \E i \in 1..(Len(s) - Len(t) + 1) : SubSeq(s, i, i + Len(t) - 1) = t

\* parseInt(string, 10): leading blanks are skipped, a sign is taken, then
\* the longest run of digits is read and the rest of the string is ignored;
\* <<n>> for the number read and <<>> for NaN, when no digit was read
IsDigit(ch) == \E d \in 0..9 : Digit(d) = ch

DigitValue(ch) == CHOOSE d \in 0..9 : Digit(d) = ch

RECURSIVE ReadDigits(_, _, _)
ReadDigits(s, n, any) ==
    IF Len(s) > 0 /\ IsDigit(SubSeq(s, 1, 1))
    THEN ReadDigits(SubSeq(s, 2, Len(s)),
                    10 * n + DigitValue(SubSeq(s, 1, 1)), TRUE)
    ELSE IF any THEN <<n>> ELSE <<>>

RECURSIVE TrimStart(_)
TrimStart(s) ==
    IF Len(s) > 0 /\ SubSeq(s, 1, 1) = " "
    THEN TrimStart(SubSeq(s, 2, Len(s)))
    ELSE s

parseInt(string) ==
    LET s == TrimStart(string)
        signed == Len(s) > 0 /\ SubSeq(s, 1, 1) \in {"-", "+"}
        digits == ReadDigits(IF signed THEN SubSeq(s, 2, Len(s)) ELSE s,
                             0, FALSE)
    IN  IF digits = <<>> THEN <<>>
        ELSE IF signed /\ SubSeq(s, 1, 1) = "-" THEN <<-digits[1]>>
        ELSE digits

----------------------------------------------------------------------------
(* database.ts *)

\* every count against every session; names vary under SpecByName
CreateInputs ==
    [sessionId : Sessions, name : {"Cp"}, messageCount : 0..MaxMessages]

\* inputs of the store called alone: every session and name, and inputs
\* that carry the optional fields (a description may be the empty string)
StoreInputs ==
    [sessionId : Sessions, name : Names, messageCount : {1}]
    \cup [sessionId : {"s1"}, name : {"Cp"}, messageCount : {2},
          description : {"", "Before refactor"},
          gitCommit : {"abc123"},
          metadata : {[custom |-> "value"]}]

\* JSON.stringify of an object of at most one key, its value a string
\* without quotes, and of the object {directory, timestamp} of the plugin
JSONStringify(object) ==
    IF DOMAIN object = {}
    THEN "{}"
    ELSE IF DOMAIN object = {"directory", "timestamp"}
    THEN "{\"directory\":\"" \o object.directory \o "\",\"timestamp\":"
             \o NumberToString(object.timestamp) \o "}"
    ELSE LET key == CHOOSE k \in DOMAIN object : TRUE
         IN  "{\"" \o key \o "\":\"" \o object[key] \o "\"}"

\* a value of a TEXT column that may also hold NULL
Text(string) == [text |-> string]

\* data.description || null, data.gitCommit || null: a field that is
\* absent or the empty string is falsy
OrNull(data, field) ==
    IF field \in DOMAIN data /\ data[field] # ""
    THEN Text(data[field])
    ELSE NULL

\* JSON.stringify(data.metadata || {}): an object is truthy, also when empty
MetadataText(data) ==
    IF "metadata" \in DOMAIN data
    THEN JSONStringify(data.metadata)
    ELSE JSONStringify(<<>>)

\* the row INSERTed by createCheckpoint; the id is lastInsertRowid
NewRow(data, id, t) ==
    [id |-> id,
     sessionId |-> data.sessionId,
     name |-> data.name,
     description |-> OrNull(data, "description"),
     messageCount |-> data.messageCount,
     gitCommit |-> OrNull(data, "gitCommit"),
     createdAt |-> t,
     metadata |-> MetadataText(data)]

getCheckpoint(id) ==
    IF \E c \in checkpoints : c.id = id
    THEN CHOOSE c \in checkpoints : c.id = id
    ELSE NULL

\* variant: WHERE name = ?
NameMatches_AnySession(sessionId, name) ==
    {c \in checkpoints : c.name = name}

\* WHERE session_id = ? AND name = ?
NameMatches(sessionId, name) ==
    {c \in checkpoints : c.sessionId = sessionId /\ c.name = name}

\* variant: ORDER BY created_at ASC
findCheckpointByName_Oldest(sessionId, name) ==
    LET match == NameMatches(sessionId, name)
    IN  {c \in match : \A d \in match : d.createdAt >= c.createdAt}

\* WHERE session_id = ? AND name = ? ORDER BY created_at DESC LIMIT 1:
\* the rows the query may return (rows of equal created_at come in an order
\* the query does not fix)
findCheckpointByName(sessionId, name) ==
    LET match == NameMatches(sessionId, name)
    IN  {c \in match : \A d \in match : d.createdAt <= c.createdAt}

\* variant: a plain INTEGER PRIMARY KEY, one more than the largest rowid
\* in the table
NextRowid_MaxPlusOne ==
    IF checkpoints = {} THEN 1
    ELSE 1 + CHOOSE n \in {c.id : c \in checkpoints} :
                 \A c \in checkpoints : c.id <= n

\* INTEGER PRIMARY KEY AUTOINCREMENT: one more than the largest rowid the
\* table ever held
NextRowid == lastId + 1

\* the INSERT statement; t is what Date.now() returns, and the clock does
\* not run backwards
InsertCheckpoint(data, t) ==
    /\ t >= now
    /\ now' = t
    /\ checkpoints' = checkpoints \cup {NewRow(data, NextRowid, t)}
    /\ lastId' = lastId + 1

createCheckpoint(data, t) ==
    /\ InsertCheckpoint(data, t)
    /\ UNCHANGED <<messages, msgSeq, forkSeq, calls>>

\* limit = 50
DefaultLimit == 50

\* variant: no ORDER BY
OrderedByCreatedAtDesc_Unordered(rows) ==
    {q \in [1..Cardinality(rows) -> rows] :
        \A i, j \in DOMAIN q : i # j => q[i] # q[j]}

\* ORDER BY created_at DESC: the orders the rows may come in (rows of equal
\* created_at come in an order the query does not fix)
RECURSIVE OrderedByCreatedAtDesc(_)
OrderedByCreatedAtDesc(rows) ==
    IF rows = {} THEN {<<>>}
    ELSE LET newest == {c \in rows :
                          \A d \in rows : d.createdAt <= c.createdAt}
         IN  UNION {{<<c>> \o q : q \in OrderedByCreatedAtDesc(rows \ {c})} :
                    c \in newest}

\* variant: one row more than the limit
Limited_Inclusive(q, limit) ==
    IF limit < 0 \/ limit + 1 >= Len(q) THEN q ELSE SubSeq(q, 1, limit + 1)

\* LIMIT ?: the first rows, all of them when the limit is negative
Limited(q, limit) ==
    IF limit < 0 \/ limit >= Len(q) THEN q ELSE SubSeq(q, 1, limit)

\* WHERE session_id = ? ORDER BY created_at DESC LIMIT ?: the sequences the
\* query may return
listCheckpoints(sessionId, limit) ==
    {Limited(q, limit) :
        q \in OrderedByCreatedAtDesc(
                 {c \in checkpoints : c.sessionId = sessionId})}

\* variant: COUNT(session_id)
getStats_NotDistinct ==
    [totalCheckpoints |-> Cardinality(checkpoints),
     totalSessions |-> Cardinality(checkpoints)]

\* SELECT COUNT(*), COUNT(DISTINCT session_id)
getStats ==
    [totalCheckpoints |-> Cardinality(checkpoints),
     totalSessions |-> Cardinality({c.sessionId : c \in checkpoints})]

deleteCheckpoint(id) ==
    /\ checkpoints' = {c \in checkpoints : c.id # id}
    /\ UNCHANGED <<lastId, now, messages, msgSeq, forkSeq, calls>>

\* variant: a soft delete, the rows of the session marked instead of removed
deleteSessionCheckpoints_Soft(sessionId) ==
    /\ checkpoints' = {IF c.sessionId = sessionId
                       THEN [c EXCEPT !.name = "deleted"]
                       ELSE c : c \in checkpoints}
    /\ UNCHANGED <<lastId, now, messages, msgSeq, forkSeq, calls>>

deleteSessionCheckpoints(sessionId) ==
    /\ checkpoints' = {c \in checkpoints : c.sessionId # sessionId}
    /\ UNCHANGED <<lastId, now, messages, msgSeq, forkSeq, calls>>

\* a call of the store with the value it returned
StoreCall(op, arg, result) ==
    [op |-> op, arg |-> arg, pc |-> "done", result |-> result]

\* createCheckpoint, its caller keeping result.lastInsertRowid
createCheckpointCall(data, t) ==
    /\ InsertCheckpoint(data, t)
    /\ calls' = Append(calls, StoreCall("createCheckpoint", data, NextRowid))
    /\ UNCHANGED <<messages, msgSeq, forkSeq>>

\* variant: the rows in the table
deleteCheckpointChanges_Total(id) ==
    Cardinality(checkpoints)

\* result.changes of DELETE FROM checkpoints WHERE id = ?
deleteCheckpointChanges(id) ==
    Cardinality({c \in checkpoints : c.id = id})

\* deleteCheckpoint, its caller keeping result.changes > 0
deleteCheckpointCall(id) ==
    /\ checkpoints' = {c \in checkpoints : c.id # id}
    /\ calls' = Append(calls, StoreCall("deleteCheckpoint", id,
                                        deleteCheckpointChanges(id) > 0))
    /\ UNCHANGED <<lastId, now, messages, msgSeq, forkSeq>>

\* variant: the sessions that lost rows
deleteSessionCheckpointsChanges_Sessions(sessionId) ==
    Cardinality({c.sessionId : c \in {d \in checkpoints : d.sessionId = sessionId}})

\* result.changes of DELETE FROM checkpoints WHERE session_id = ?
deleteSessionCheckpointsChanges(sessionId) ==
    Cardinality({c \in checkpoints : c.sessionId = sessionId})

\* deleteSessionCheckpoints, its caller keeping result.changes
deleteSessionCheckpointsCall(sessionId) ==
    /\ checkpoints' = {c \in checkpoints : c.sessionId # sessionId}
    /\ calls' = Append(calls,
                  StoreCall("deleteSessionCheckpoints", sessionId,
                            deleteSessionCheckpointsChanges(sessionId)))
    /\ UNCHANGED <<lastId, now, messages, msgSeq, forkSeq>>

----------------------------------------------------------------------------
(* The host: sessions grow by appended messages; message ids are its own *)

MessageId(n) == "msg-" \o NumberToString(n)

hostAppendMessage(sessionId) ==
    /\ msgSeq' = msgSeq + 1
    /\ messages' = [messages EXCEPT
                      ![sessionId] = Append(@, MessageId(msgSeq + 1))]
    /\ UNCHANGED <<checkpoints, lastId, now, forkSeq, calls>>

----------------------------------------------------------------------------
(* restore.ts: RestoreManager *)

\* a call that has returned, and a call suspended at an await
Returned(call, result) == [call EXCEPT !.pc = "done", !.result = result]

NewCall(op, sessionId, checkpointId, checkpointName) ==
    [op |-> op,
     sessionId |-> sessionId,
     checkpointId |-> checkpointId,
     checkpointName |-> checkpointName,
     pc |-> "start",
     checkpoint |-> NULL,      \* const checkpoint
     fetches |-> 0,            \* sessionClient.messages calls issued
     fetched |-> <<>>,         \* const messages, once the promise resolved
     fetchOk |-> FALSE,
     forkCalls |-> <<>>,       \* sessionClient.fork calls issued
     forked |-> NULL,          \* const forked
     thrown |-> NULL,          \* the value caught
     threw |-> FALSE,          \* the call rejected instead of returning
     result |-> NULL]

NotFoundResult(checkpointId) ==
    [success |-> FALSE,
     checkpointId |-> checkpointId,
     checkpointName |-> "unknown",
     newSessionId |-> "",
     messageCount |-> 0,
     error |-> "Checkpoint " \o NumberToString(checkpointId) \o " not found"]

DifferentSessionResult(checkpointId, checkpoint) ==
    [success |-> FALSE,
     checkpointId |-> checkpointId,
     checkpointName |-> checkpoint.name,
     newSessionId |-> "",
     messageCount |-> 0,
     error |-> "Checkpoint belongs to different session ("
                 \o checkpoint.sessionId \o ")"]

TooFewMessagesResult(checkpointId, checkpoint, msgs) ==
    [success |-> FALSE,
     checkpointId |-> checkpointId,
     checkpointName |-> checkpoint.name,
     newSessionId |-> "",
     messageCount |-> Len(msgs),
     error |-> "Current session has " \o NumberToString(Len(msgs))
                 \o " messages, checkpoint expects "
                 \o NumberToString(checkpoint.messageCount)]

NoTargetResult(checkpointId, checkpoint) ==
    [success |-> FALSE,
     checkpointId |-> checkpointId,
     checkpointName |-> checkpoint.name,
     newSessionId |-> "",
     messageCount |-> 0,
     error |-> "Could not find message at position "
                 \o NumberToString(checkpoint.messageCount)]

\* variant: the live length reported instead of the recorded count
SuccessResult_LiveLength(checkpointId, checkpoint, msgs, forked) ==
    [success |-> TRUE,
     checkpointId |-> checkpointId,
     checkpointName |-> checkpoint.name,
     newSessionId |-> forked.id,
     messageCount |-> Len(msgs)]

SuccessResult(checkpointId, checkpoint, msgs, forked) ==
    [success |-> TRUE,
     checkpointId |-> checkpointId,
     checkpointName |-> checkpoint.name,
     newSessionId |-> forked.id,
     messageCount |-> checkpoint.messageCount]

\* variant: the text of a thrown value that is not an Error is dropped
CaughtText_ErrorsOnly(error) ==
    IF error.isError THEN error.message ELSE "Unknown error"

\* error instanceof Error ? error.message : String(error); a thrown value
\* that is not an Error is a string here, and String of it is that string
CaughtText(error) == IF error.isError THEN error.message ELSE error.value

CaughtResult(checkpointId, checkpoint, error) ==
    [success |-> FALSE,
     checkpointId |-> checkpointId,
     checkpointName |-> checkpoint.name,
     newSessionId |-> "",
     messageCount |-> 0,
     error |-> CaughtText(error)]

NoSuchNameResult(checkpointName) ==
    [success |-> FALSE,
     checkpointId |-> 0,
     checkpointName |-> checkpointName,
     newSessionId |-> "",
     messageCount |-> 0,
     error |-> "No checkpoint named \"" \o checkpointName
                 \o "\" found for session"]

\* variant: any session may restore any checkpoint
differentSession_Unchecked(checkpoint, sessionId) == FALSE

\* checkpoint.sessionId !== sessionId
differentSession(checkpoint, sessionId) == checkpoint.sessionId # sessionId

\* variant: the length check left out
tooFewMessages_Unchecked(msgs, checkpoint) == FALSE

\* messages.length < checkpoint.messageCount
tooFewMessages(msgs, checkpoint) == Len(msgs) < checkpoint.messageCount

\* variant: messages[checkpoint.messageCount], the count taken as the index
targetMessage_CountAsIndex(msgs, checkpoint) ==
    IF checkpoint.messageCount + 1 \in 1..Len(msgs)
    THEN <<msgs[checkpoint.messageCount + 1]>>
    ELSE <<>>

\* messages[checkpoint.messageCount - 1]: the zero-based index
\* messageCount - 1 is position messageCount of the sequence; an index
\* outside the array reads undefined
targetMessage(msgs, checkpoint) ==
    IF checkpoint.messageCount \in 1..Len(msgs)
    THEN <<msgs[checkpoint.messageCount]>>
    ELSE <<>>

\* variant: the fork asked for without a boundary, of the whole session
ForkOptions_Whole(sessionId, messageId, checkpoint) ==
    [sessionId |-> sessionId,
     messageId |-> "",
     title |-> "Restored: " \o checkpoint.name]

ForkOptions(sessionId, messageId, checkpoint) ==
    [sessionId |-> sessionId,
     messageId |-> messageId,
     title |-> "Restored: " \o checkpoint.name]

\* variant: no null check; reading checkpoint.sessionId of null throws
\* outside the try block and the call rejects
restoreLookup_NoNullCheck(call) ==
    LET checkpoint == getCheckpoint(call.checkpointId)
    IN  IF checkpoint = NULL
        THEN [call EXCEPT !.pc = "done", !.threw = TRUE]
        ELSE IF differentSession(checkpoint, call.sessionId)
        THEN Returned([call EXCEPT !.checkpoint = checkpoint],
                      DifferentSessionResult(call.checkpointId, checkpoint))
        ELSE [call EXCEPT !.checkpoint = checkpoint,
                          !.pc = "messages",
                          !.fetches = @ + 1]

\* restore, from its call to the await of sessionClient.messages
restoreLookup(call) ==
    LET checkpoint == getCheckpoint(call.checkpointId)
    IN  IF checkpoint = NULL
        THEN Returned(call, NotFoundResult(call.checkpointId))
        ELSE IF differentSession(checkpoint, call.sessionId)
        THEN Returned([call EXCEPT !.checkpoint = checkpoint],
                      DifferentSessionResult(call.checkpointId, checkpoint))
        ELSE [call EXCEPT !.checkpoint = checkpoint,
                          !.pc = "messages",
                          !.fetches = @ + 1]

\* restore, from the resolved messages to the await of sessionClient.fork
restoreBoundary(call, msgs) ==
    LET checkpoint == call.checkpoint
        got == [call EXCEPT !.fetched = msgs, !.fetchOk = TRUE]
    IN  IF tooFewMessages(msgs, checkpoint)
        THEN Returned(got, TooFewMessagesResult(call.checkpointId,
                                                checkpoint, msgs))
        ELSE IF targetMessage(msgs, checkpoint) = <<>>
        THEN Returned(got, NoTargetResult(call.checkpointId, checkpoint))
        ELSE [got EXCEPT
                !.pc = "fork",
                !.forkCalls = Append(@,
                    ForkOptions(call.sessionId,
                                targetMessage(msgs, checkpoint)[1],
                                checkpoint))]

\* restore, after the fork resolved
restoreForked(call, forked) ==
    Returned([call EXCEPT !.forked = forked],
             SuccessResult(call.checkpointId, call.checkpoint,
                           call.fetched, forked))

\* variant: a rejected collaborator call makes restore fetch the messages
\* again
restoreCaught_Retry(call, error) ==
    [call EXCEPT !.thrown = error, !.pc = "messages", !.fetches = @ + 1]

\* variant: the catch block fetches the messages again, without end
restoreCaught_Again(call, error) ==
    [call EXCEPT !.thrown = error, !.pc = "messages"]

\* restore, the catch block
restoreCaught(call, error) ==
    Returned([call EXCEPT !.thrown = error],
             CaughtResult(call.checkpointId, call.checkpoint, error))

\* canRestore, from its call to the await of sessionClient.messages
canRestoreLookup(call) ==
    LET checkpoint == getCheckpoint(call.checkpointId)
    IN  IF checkpoint = NULL
        THEN Returned(call, [valid |-> FALSE,
                             reason |-> "Checkpoint not found"])
        ELSE IF differentSession(checkpoint, call.sessionId)
        THEN Returned([call EXCEPT !.checkpoint = checkpoint],
                      [valid |-> FALSE,
                       reason |-> "Checkpoint belongs to different session"])
        ELSE [call EXCEPT !.checkpoint = checkpoint,
                          !.pc = "messages",
                          !.fetches = @ + 1]

\* variant: the fork is tried to find out whether it works
canRestoreBoundary_TrialFork(call, msgs) ==
    LET checkpoint == call.checkpoint
        got == [call EXCEPT !.fetched = msgs, !.fetchOk = TRUE]
    IN  IF Len(msgs) < checkpoint.messageCount \/ targetMessage(msgs, checkpoint) = <<>>
        THEN Returned(got, [valid |-> FALSE, reason |-> "Cannot restore"])
        ELSE Returned([got EXCEPT !.forkCalls = Append(@,
                           ForkOptions(call.sessionId,
                                       targetMessage(msgs, checkpoint)[1],
                                       checkpoint))],
                      [valid |-> TRUE])

\* canRestore, after the messages resolved
canRestoreBoundary(call, msgs) ==
    LET checkpoint == call.checkpoint
        got == [call EXCEPT !.fetched = msgs, !.fetchOk = TRUE]
    IN  IF Len(msgs) < checkpoint.messageCount
        THEN Returned(got,
               [valid |-> FALSE,
                reason |-> "Session has " \o NumberToString(Len(msgs))
                             \o " messages, checkpoint requires "
                             \o NumberToString(checkpoint.messageCount)])
        ELSE Returned(got, [valid |-> TRUE])

\* canRestore, the catch block
canRestoreCaught(call, error) ==
    Returned([call EXCEPT !.thrown = error],
             [valid |-> FALSE,
              reason |-> IF error.isError THEN error.message
                         ELSE "Unknown error"])

----------------------------------------------------------------------------
(* Calls of the RestoreManager and the completions of their awaits *)

restore(sessionId, checkpointId) ==
    /\ calls' = Append(calls,
                  restoreLookup(NewCall("restore", sessionId,
                                        checkpointId, "")))
    /\ UNCHANGED <<checkpoints, lastId, now, messages, msgSeq, forkSeq>>

\* variant: the row found by name may be deleted before restore looks it up
\* by id
restoreByName_Interleaved(sessionId, checkpointName) ==
    /\ IF findCheckpointByName(sessionId, checkpointName) = {}
       THEN calls' = Append(calls,
                       Returned(NewCall("restoreByName", sessionId,
                                        0, checkpointName),
                                NoSuchNameResult(checkpointName)))
       ELSE \E checkpoint \in findCheckpointByName(sessionId, checkpointName),
               deleted \in BOOLEAN :
              calls' = Append(calls,
                         IF deleted
                         THEN Returned(NewCall("restoreByName", sessionId,
                                               checkpoint.id, checkpointName),
                                       NotFoundResult(checkpoint.id))
                         ELSE restoreLookup(NewCall("restoreByName", sessionId,
                                               checkpoint.id, checkpointName)))
    /\ UNCHANGED <<checkpoints, lastId, now, messages, msgSeq, forkSeq>>

\* findCheckpointByName, then return this.restore(sessionId, checkpoint.id)
restoreByName(sessionId, checkpointName) ==
    /\ IF findCheckpointByName(sessionId, checkpointName) = {}
       THEN calls' = Append(calls,
                       Returned(NewCall("restoreByName", sessionId,
                                        0, checkpointName),
                                NoSuchNameResult(checkpointName)))
       ELSE \E checkpoint \in findCheckpointByName(sessionId, checkpointName) :
              calls' = Append(calls,
                         restoreLookup(NewCall("restoreByName", sessionId,
                                               checkpoint.id, checkpointName)))
    /\ UNCHANGED <<checkpoints, lastId, now, messages, msgSeq, forkSeq>>

canRestore(sessionId, checkpointId) ==
    /\ calls' = Append(calls,
                  canRestoreLookup(NewCall("canRestore", sessionId,
                                           checkpointId, "")))
    /\ UNCHANGED <<checkpoints, lastId, now, messages, msgSeq, forkSeq>>

\* sessionClient.messages(sessionId) resolves with the live sequence
messagesResolved(i) ==
    /\ calls[i].pc = "messages"
    /\ calls' = [calls EXCEPT ![i] =
                   IF calls[i].op = "canRestore"
                   THEN canRestoreBoundary(@, messages[@.sessionId])
                   ELSE restoreBoundary(@, messages[@.sessionId])]
    /\ UNCHANGED <<checkpoints, lastId, now, messages, msgSeq, forkSeq>>

\* sessionClient.messages(sessionId) rejects
messagesRejected(i, error) ==
    /\ calls[i].pc = "messages"
    /\ calls' = [calls EXCEPT ![i] =
                   IF calls[i].op = "canRestore"
                   THEN canRestoreCaught(@, error)
                   ELSE restoreCaught(@, error)]
    /\ UNCHANGED <<checkpoints, lastId, now, messages, msgSeq, forkSeq>>

\* variant: the host forks into one and the same session
ForkedSessionId_Reused(n) == "fork-1"

ForkedSessionId(n) == "fork-" \o NumberToString(n)

\* variant: a restore in place, the source session cut at the boundary
forkResolved_InPlace(i) ==
    /\ calls[i].pc = "fork"
    /\ forkSeq' = forkSeq + 1
    /\ calls' = [calls EXCEPT ![i] =
                   restoreForked(@, [id |-> ForkedSessionId(forkSeq + 1),
                                     title |-> @.forkCalls[Len(@.forkCalls)].title])]
    /\ messages' = [messages EXCEPT ![calls[i].sessionId] =
                      SubSeq(@, 1, calls[i].checkpoint.messageCount)]
    /\ UNCHANGED <<checkpoints, lastId, now, msgSeq>>

\* sessionClient.fork(options) resolves with the new session of the host
forkResolved(i) ==
    /\ calls[i].pc = "fork"
    /\ forkSeq' = forkSeq + 1
    /\ calls' = [calls EXCEPT ![i] =
                   restoreForked(@, [id |-> ForkedSessionId(forkSeq + 1),
                                     title |-> @.forkCalls[Len(@.forkCalls)].title])]
    /\ UNCHANGED <<checkpoints, lastId, now, messages, msgSeq>>

\* sessionClient.fork(options) rejects
forkRejected(i, error) ==
    /\ calls[i].pc = "fork"
    /\ calls' = [calls EXCEPT ![i] = restoreCaught(@, error)]
    /\ UNCHANGED <<checkpoints, lastId, now, messages, msgSeq, forkSeq>>

\* the caller takes the result of a call that has returned
resultTaken(i) ==
    /\ calls[i].pc = "done"
    /\ calls' = SubSeq(calls, 1, i - 1) \o SubSeq(calls, i + 1, Len(calls))
    /\ UNCHANGED <<checkpoints, lastId, now, messages, msgSeq, forkSeq>>

----------------------------------------------------------------------------
(* index.ts: the plugin's tools and its event handler *)

\* the directory the plugin was loaded for
Directory == "/work"

\* the arguments of checkpoint_create where two rows are stored: any string
\* is a name, the empty string too
PluginCreateArgs ==
    {[name |-> ""], [name |-> "Cp", description |-> "Before refactor"]}

\* the arguments of checkpoint_create where references are resolved: a name
\* may start with a digit
ReferenceCreateArgs == {[name |-> "Cp"], [name |-> "2nd"]}

\* the references checkpoint_restore is called with, and the ids
\* checkpoint_delete is called with
References == {"1", "Cp", "2nd"}
DeleteArgs == {"1", "2", "Cp"}

EventTypes == {"session.deleted", "session.updated"}

\* the fields of a record, and those of another it does not have
Merged(f, g) ==
    [k \in DOMAIN f \cup DOMAIN g |-> IF k \in DOMAIN f THEN f[k] ELSE g[k]]

\* the argument of db.createCheckpoint; a field whose value is undefined
\* is left out
PluginCreateData(sessionId, args, messageCount, gitCommit, timestamp) ==
    Merged(Merged([sessionId |-> sessionId,
                   name |-> args.name,
                   messageCount |-> messageCount,
                   metadata |-> [directory |-> Directory,
                                 timestamp |-> timestamp]],
                  IF "description" \in DOMAIN args
                  THEN [description |-> args.description] ELSE <<>>),
           IF gitCommit # <<>> THEN [gitCommit |-> gitCommit[1]] ELSE <<>>)

\* string.slice(0, n)
Slice(string, n) == SubSeq(string, 1, IF Len(string) < n THEN Len(string) ELSE n)

CreateResponse(args, checkpointId, messageCount, gitCommit) ==
    "Checkpoint created: " \o args.name \o "\n"
    \o "  ID: " \o NumberToString(checkpointId) \o "\n"
    \o "  Messages: " \o NumberToString(messageCount) \o "\n"
    \o (IF gitCommit # <<>> /\ gitCommit[1] # ""
        THEN "  Git commit: " \o Slice(gitCommit[1], 8) \o "\n" ELSE "")
    \o (IF "description" \in DOMAIN args /\ args.description # ""
        THEN "  Description: " \o args.description \o "\n" ELSE "")

\* checkpoint_create, from its call to the await in getMessageCount
checkpoint_create(sessionId, args) ==
    /\ calls' = Append(calls, [op |-> "checkpoint_create",
                               sessionId |-> sessionId,
                               args |-> args,
                               pc |-> "count",
                               live |-> 0,    \* messages of the session when
                                              \* the checkpoint was stored
                               result |-> NULL])
    /\ UNCHANGED <<checkpoints, lastId, now, messages, msgSeq, forkSeq>>

\* checkpoint_create, from the message count to its return: the commit is
\* read, then the clock for the metadata, then createCheckpoint reads the
\* clock again
checkpoint_createCounted(i, messageCount, gitCommit, timestamp, t) ==
    /\ now <= timestamp /\ timestamp <= t
    /\ InsertCheckpoint(PluginCreateData(calls[i].sessionId, calls[i].args,
                                         messageCount, gitCommit, timestamp),
                        t)
    /\ calls' = [calls EXCEPT ![i] =
                   [@ EXCEPT !.pc = "done",
                             !.live = Len(messages[calls[i].sessionId]),
                             !.result = [checkpointId |-> NextRowid,
                                         response |->
                                           CreateResponse(calls[i].args, NextRowid,
                                               messageCount, gitCommit)]]]
    /\ UNCHANGED <<messages, msgSeq, forkSeq>>

\* getMessageCount when sessionClient.messages resolves: messages.length
getMessageCount(sessionId) == Len(messages[sessionId])

countResolved(i, gitCommit, timestamp, t) ==
    /\ calls[i].pc = "count"
    /\ checkpoint_createCounted(i, getMessageCount(calls[i].sessionId),
                                gitCommit, timestamp, t)

\* getMessageCount when sessionClient.messages rejects: catch { return 0 }
countRejected(i, error, gitCommit, timestamp, t) ==
    /\ calls[i].pc = "count"
    /\ checkpoint_createCounted(i, 0, gitCommit, timestamp, t)

\* the RestoreManager call checkpoint_restore awaits, with the reference the
\* tool was given
\* a number of at most two digits written with two digits
TwoDigits(n) == Digit(n \div 10) \o Digit(n % 10)

\* new Date(ms).toLocaleString(), as the en-US locale writes it in UTC for a
\* time of January 1970: the date and the time to the second, the
\* milliseconds dropped
toLocaleString(ms) ==
    LET seconds == ms \div 1000
        day == seconds \div 86400
        hour == (seconds \div 3600) % 24
    IN  "1/" \o NumberToString(day + 1) \o "/1970, "
        \o NumberToString(IF hour % 12 = 0 THEN 12 ELSE hour % 12) \o ":"
        \o TwoDigits((seconds \div 60) % 60) \o ":"
        \o TwoDigits(seconds % 60)
        \o (IF hour < 12 THEN " AM" ELSE " PM")

\* the rows of the table, one line for each checkpoint of the sequence
RECURSIVE ListRows(_)
ListRows(q) ==
    IF q = <<>> THEN ""
    ELSE LET cp == q[1]
         IN  "| " \o NumberToString(cp.id) \o " | " \o cp.name \o " | "
             \o NumberToString(cp.messageCount) \o " | "
             \o toLocaleString(cp.createdAt) \o " | "
             \o (IF cp.gitCommit # NULL /\ cp.gitCommit.text # ""
                 THEN Slice(cp.gitCommit.text, 8) ELSE "-")
             \o " |\n"
             \o ListRows(Tail(q))

\* the text checkpoint_list returns for the sequence listCheckpoints gave
ListResponse(q) ==
    IF Len(q) = 0
    THEN "No checkpoints found for this session."
    ELSE "Checkpoints (" \o NumberToString(Len(q)) \o "):\n\n"
         \o "| ID | Name | Messages | Created | Git |\n"
         \o "|---|---|---|---|---|\n"
         \o ListRows(q)

\* the tool checkpoint_list: db.listCheckpoints(context.sessionID), then the
\* table
checkpoint_list(sessionId) ==
    /\ \E q \in listCheckpoints(sessionId, DefaultLimit) :
         calls' = Append(calls, [op |-> "checkpoint_list",
                                 sessionId |-> sessionId,
                                 pc |-> "done",
                                 result |-> ListResponse(q)])
    /\ UNCHANGED <<checkpoints, lastId, now, messages, msgSeq, forkSeq>>

\* the request the adapter sessionClient.fork makes of the host for the
\* options restore passes: client.session.fork({path, body})
sessionClientFork(options) ==
    [path |-> [id |-> options.sessionId],
     body |-> [messageID |-> options.messageId]]

ToolCall(call, reference) == Merged(call, [reference |-> reference])

\* checkpoint_restore, from its call to the first await of the restore it
\* delegates to: parseInt(args.checkpoint, 10), then restore by id unless
\* the parse gave NaN, and restoreByName otherwise
checkpoint_restore(sessionId, reference) ==
    /\ LET checkpointId == parseInt(reference)
       IN  IF checkpointId # <<>>
           THEN calls' = Append(calls,
                  restoreLookup(ToolCall(NewCall("restore", sessionId,
                                                 checkpointId[1], ""),
                                         reference)))
           ELSE IF findCheckpointByName(sessionId, reference) = {}
           THEN calls' = Append(calls,
                  Returned(ToolCall(NewCall("restoreByName", sessionId,
                                            0, reference), reference),
                           NoSuchNameResult(reference)))
           ELSE \E checkpoint \in findCheckpointByName(sessionId, reference) :
                  calls' = Append(calls,
                    restoreLookup(ToolCall(NewCall("restoreByName", sessionId,
                                                   checkpoint.id, reference),
                                           reference)))
    /\ UNCHANGED <<checkpoints, lastId, now, messages, msgSeq, forkSeq>>

\* what checkpoint_restore returns for the result of the restore
RestoreResponse(result) ==
    IF ~result.success
    THEN "Restore failed: " \o result.error
    ELSE "Session restored to checkpoint: " \o result.checkpointName \o "\n\n"
         \o "A new session has been created with "
         \o NumberToString(result.messageCount) \o " messages.\n"
         \o "New session ID: " \o result.newSessionId \o "\n\n"
         \o "Switch to the new session to continue from the checkpoint.\n"
         \o "The current session remains unchanged."

\* checkpoint_delete: parseInt(args.id, 10), then db.deleteCheckpoint
checkpoint_delete(sessionId, idText) ==
    LET checkpointId == parseInt(idText)
        deleted == checkpointId # <<>> /\ deleteCheckpointChanges(checkpointId[1]) > 0
        response == IF checkpointId = <<>>
                    THEN "Error: Valid checkpoint ID required."
                    ELSE IF deleted
                    THEN "Checkpoint " \o NumberToString(checkpointId[1])
                             \o " deleted"
                    ELSE "Checkpoint " \o NumberToString(checkpointId[1])
                             \o " not found"
    IN  /\ checkpoints' = IF checkpointId = <<>> THEN checkpoints
                          ELSE {c \in checkpoints : c.id # checkpointId[1]}
        /\ calls' = Append(calls, [op |-> "checkpoint_delete",
                                   sessionId |-> sessionId,
                                   arg |-> idText,
                                   pc |-> "done",
                                   result |-> response])
        /\ UNCHANGED <<lastId, now, messages, msgSeq, forkSeq>>

\* variant: every event of a session removes its checkpoints
event_AnyType(type, sessionId) ==
    /\ checkpoints' = {c \in checkpoints : c.sessionId # sessionId}
    /\ calls' = Append(calls, [op |-> "event",
                               arg |-> [type |-> type, sessionId |-> sessionId],
                               pc |-> "done",
                               result |-> NULL])
    /\ UNCHANGED <<lastId, now, messages, msgSeq, forkSeq>>

\* the event handler: session.deleted with a session id removes the
\* checkpoints of the session
event(type, sessionId) ==
    /\ checkpoints' = IF type = "session.deleted" /\ sessionId # ""
                      THEN {c \in checkpoints : c.sessionId # sessionId}
                      ELSE checkpoints
    /\ calls' = Append(calls, [op |-> "event",
                               arg |-> [type |-> type, sessionId |-> sessionId],
                               pc |-> "done",
                               result |-> NULL])
    /\ UNCHANGED <<lastId, now, messages, msgSeq, forkSeq>>

----------------------------------------------------------------------------
(* The specification: the host makes one call at a time (request-per-call) *)

Init ==
    /\ checkpoints = {}
    /\ lastId = 0
    /\ now = 0
    /\ messages = [s \in Sessions |-> <<>>]
    /\ msgSeq = 0
    /\ forkSeq = 0
    /\ calls = <<>>

Next ==
    \/ /\ lastId < MaxCheckpoints
       /\ \E data \in CreateInputs, t \in {now, now + 1} :
            createCheckpoint(data, t)
    \/ \E id \in CheckpointIds : deleteCheckpoint(id)
    \/ \E s \in Sessions : deleteSessionCheckpoints(s)
    \/ /\ msgSeq < MaxMessages
       /\ \E s \in Sessions : hostAppendMessage(s)
    \/ /\ calls = <<>>
       /\ \E s \in Sessions, id \in CheckpointIds : restore(s, id)
    \/ /\ calls = <<>>
       /\ \E s \in Sessions, n \in Names : restoreByName(s, n)
    \/ /\ calls = <<>>
       /\ \E s \in Sessions, id \in CheckpointIds : canRestore(s, id)
    \/ \E i \in 1..Len(calls) : messagesResolved(i)
    \/ \E i \in 1..Len(calls), e \in Thrown : messagesRejected(i, e)
    \/ /\ forkSeq < MaxForks
       /\ \E i \in 1..Len(calls) : forkResolved(i)
    \/ \E i \in 1..Len(calls), e \in Thrown : forkRejected(i, e)
    \/ \E i \in 1..Len(calls) : resultTaken(i)

Spec == Init /\ [][Next]_vars

\* The collaborator answers: a message fetch or a fork that was issued
\* resolves or is rejected
collaboratorReplies ==
    \E i \in 1..Len(calls) :
        \/ messagesResolved(i)
        \/ \E e \in Thrown : messagesRejected(i, e)
        \/ forkSeq < MaxForks /\ forkResolved(i)
        \/ \E e \in Thrown : forkRejected(i, e)

\* The calls of Spec with a collaborator that answers every call issued to it
SpecLive == Init /\ [][Next]_vars /\ WF_vars(collaboratorReplies)

\* Name resolution: several checkpoints of one count, restored by name
NamedInputs == [sessionId : Sessions, name : Names, messageCount : {1}]

NextByName ==
    \/ /\ lastId < MaxNamed
       /\ \E data \in NamedInputs, t \in {now, now + 1} :
            createCheckpoint(data, t)
    \/ \E id \in 1..MaxNamed : deleteCheckpoint(id)
    \/ /\ msgSeq < MaxMessages
       /\ \E s \in Sessions : hostAppendMessage(s)
    \/ /\ calls = <<>>
       /\ \E s \in Sessions, n \in Names : restoreByName(s, n)
    \/ \E i \in 1..Len(calls) : messagesResolved(i)
    \/ \E i \in 1..Len(calls), e \in Thrown : messagesRejected(i, e)
    \/ /\ forkSeq < MaxForks
       /\ \E i \in 1..Len(calls) : forkResolved(i)
    \/ \E i \in 1..Len(calls), e \in Thrown : forkRejected(i, e)
    \/ \E i \in 1..Len(calls) : resultTaken(i)

SpecByName == Init /\ [][NextByName]_vars

\* The store called alone, one call at a time, each result kept until taken
NextStore ==
    \/ /\ calls = <<>>
       /\ lastId < MaxStored
       /\ \E data \in StoreInputs, t \in {now, now + 1} :
            createCheckpointCall(data, t)
    \/ /\ calls = <<>>
       /\ \E id \in 1..(MaxStored + 1) : deleteCheckpointCall(id)
    \/ /\ calls = <<>>
       /\ \E s \in Sessions : deleteSessionCheckpointsCall(s)
    \/ \E i \in 1..Len(calls) : resultTaken(i)

SpecStore == Init /\ [][NextStore]_vars

\* The plugin's tools that write to the store, and the event handler: the
\* host calls one tool or delivers one event at a time
MaxCreated == 2       \* rows ever inserted by checkpoint_create

\* what checkpoint_create reads from its environment after the count: the
\* commit, the clock for the metadata and the clock in createCheckpoint
Readings ==
    {<<<<>>, now, now>>, <<<<"abc123def456">>, now, now + 1>>}

NextPlugin ==
    \/ /\ calls = <<>>
       /\ lastId < MaxCreated
       /\ \E s \in Sessions, args \in PluginCreateArgs : checkpoint_create(s, args)
    \/ \E i \in 1..Len(calls), r \in Readings :
           countResolved(i, r[1], r[2], r[3])
    \/ \E i \in 1..Len(calls), e \in Thrown, r \in Readings :
           countRejected(i, e, r[1], r[2], r[3])
    \/ /\ calls = <<>>
       /\ \E s \in Sessions, a \in DeleteArgs : checkpoint_delete(s, a)
    \/ /\ calls = <<>>
       /\ \E type \in EventTypes, s \in Sessions : event(type, s)
    \/ /\ msgSeq < MaxMessages
       /\ \E s \in Sessions : hostAppendMessage(s)
    \/ \E i \in 1..Len(calls) : resultTaken(i)

SpecPlugin == Init /\ [][NextPlugin]_vars

\* checkpoint_create and checkpoint_restore: a call is made when no call is
\* pending, and the results of earlier calls are kept until they are taken
MaxReferenced == 1    \* rows ever inserted where references are resolved
MaxKept == 2          \* calls made and not yet taken

NoCallPending == \A i \in 1..Len(calls) : calls[i].pc = "done"

NextReference ==
    \/ /\ NoCallPending /\ Len(calls) < MaxKept
       /\ lastId < MaxReferenced
       /\ \E s \in Sessions, args \in ReferenceCreateArgs :
            checkpoint_create(s, args)
    \/ \E i \in 1..Len(calls), r \in Readings :
           countResolved(i, r[1], r[2], r[3])
    \/ \E i \in 1..Len(calls), e \in Thrown, r \in Readings :
           countRejected(i, e, r[1], r[2], r[3])
    \/ /\ NoCallPending /\ Len(calls) < MaxKept
       /\ \E s \in Sessions, r \in References : checkpoint_restore(s, r)
    \/ /\ NoCallPending /\ Len(calls) < MaxKept
       /\ \E s \in Sessions, id \in 1..MaxReferenced : canRestore(s, id)
    \/ /\ msgSeq < MaxMessages
       /\ \E s \in Sessions : hostAppendMessage(s)
    \/ \E i \in 1..Len(calls) : messagesResolved(i)
    \/ \E i \in 1..Len(calls), e \in Thrown : messagesRejected(i, e)
    \/ /\ forkSeq < MaxForks
       /\ \E i \in 1..Len(calls) : forkResolved(i)
    \/ \E i \in 1..Len(calls), e \in Thrown : forkRejected(i, e)
    \/ \E i \in 1..Len(calls) : resultTaken(i)

SpecReference == Init /\ [][NextReference]_vars

\* Listing: checkpoints are stored one after another, each at a later
\* millisecond, and the sessions list theirs
MaxListed == 51       \* rows ever inserted before a listing

ListInputs == [sessionId : {"s1"}, name : {"Cp"}, messageCount : {1}]

NextList ==
    \/ /\ calls = <<>>
       /\ lastId < MaxListed
       /\ \E data \in ListInputs : createCheckpoint(data, now + 1)
    \/ /\ calls = <<>>
       /\ \E s \in Sessions : checkpoint_list(s)
    \/ \E i \in 1..Len(calls) : resultTaken(i)

SpecList == Init /\ [][NextList]_vars

\* Racing calls: restore is called again while earlier calls are suspended
\* at an await
MaxRacing == 2        \* calls not yet taken, and sessions the host forks

RaceInputs == [sessionId : {"s1"}, name : {"Cp"}, messageCount : {1, 2}]

NextRace ==
    \/ /\ lastId < MaxCheckpoints
       /\ \E data \in RaceInputs, t \in {now, now + 1} :
            createCheckpoint(data, t)
    \/ /\ msgSeq < MaxMessages
       /\ hostAppendMessage("s1")
    \/ /\ Len(calls) < MaxRacing
       /\ \E id \in 1..MaxCheckpoints : restore("s1", id)
    \/ \E i \in 1..Len(calls) : messagesResolved(i)
    \/ \E i \in 1..Len(calls), e \in Thrown : messagesRejected(i, e)
    \/ /\ forkSeq < MaxRacing
       /\ \E i \in 1..Len(calls) : forkResolved(i)
    \/ \E i \in 1..Len(calls), e \in Thrown : forkRejected(i, e)
    \/ \E i \in 1..Len(calls) : resultTaken(i)

SpecRace == Init /\ [][NextRace]_vars

----------------------------------------------------------------------------
(* Properties of the restore resolver *)

IsRestore(call) == call.op \in {"restore", "restoreByName"}

\* the fork request restore is to make for a checkpoint and a fetched sequence
BoundaryRequest(call) ==
    [sessionId |-> call.sessionId,
     messageId |-> call.fetched[call.checkpoint.messageCount],
     title |-> "Restored: " \o call.checkpoint.name]

\* the fetch resolved with n messages for a checkpoint of count k, 1 <= k <= n
AtBoundary(call) ==
    /\ IsRestore(call)
    /\ call.fetchOk
    /\ call.checkpoint.messageCount >= 1
    /\ Len(call.fetched) >= call.checkpoint.messageCount

\* C1 as stated: for a checkpoint of the calling session with messageCount
\* k >= 1 and a fetched sequence of length n >= k, restore calls fork with
\* the session id, the title "Restored: " + name and the id of the message at
\* position k, and returns success.
C1_AlwaysSuccess ==
    \A i \in 1..Len(calls) :
        (AtBoundary(calls[i]) /\ calls[i].pc = "done") =>
            /\ calls[i].forkCalls = <<BoundaryRequest(calls[i])>>
            /\ calls[i].result.success

\* C1 amended: for a checkpoint of the calling session with messageCount
\* k >= 1 and a fetched sequence of length n >= k, restore calls fork once,
\* with the session id, the title "Restored: " + name and the id of the
\* message at position k, and returns success if that fork call resolves; if
\* it rejects, restore returns a failure.
C1_BoundaryCorrectness ==
    \A i \in 1..Len(calls) :
        AtBoundary(calls[i]) =>
            /\ calls[i].forkCalls = <<BoundaryRequest(calls[i])>>
            /\ calls[i].pc = "done" =>
                 /\ ~calls[i].threw
                 /\ calls[i].result.success <=> calls[i].forked # NULL
                 /\ calls[i].result.success <=> calls[i].thrown = NULL

\* a restore at n = k (the no-op restore) has returned success
C1_Witness ==
    \E i \in 1..Len(calls) :
        /\ AtBoundary(calls[i])
        /\ Len(calls[i].fetched) = calls[i].checkpoint.messageCount
        /\ calls[i].pc = "done"
        /\ calls[i].result.success

\* C2: when the fetched sequence has n messages and the checkpoint's count is
\* k > n, restore returns success = false with an error text that states n
\* and k, and makes no fork call.
C2_DriftRejection ==
    \A i \in 1..Len(calls) :
        (/\ IsRestore(calls[i])
         /\ calls[i].fetchOk
         /\ Len(calls[i].fetched) < calls[i].checkpoint.messageCount) =>
            /\ calls[i].pc = "done"
            /\ ~calls[i].threw
            /\ ~calls[i].result.success
            /\ Contains(calls[i].result.error,
                        NumberToString(Len(calls[i].fetched)))
            /\ Contains(calls[i].result.error,
                        NumberToString(calls[i].checkpoint.messageCount))
            /\ calls[i].forkCalls = <<>>

\* a restore has fetched fewer messages than its checkpoint counts
C2_Witness ==
    \E i \in 1..Len(calls) :
        /\ calls[i].op = "restore"
        /\ calls[i].fetchOk
        /\ 0 < Len(calls[i].fetched)
        /\ Len(calls[i].fetched) < calls[i].checkpoint.messageCount
        /\ calls[i].pc = "done"

\* C3: restore(A, id of a checkpoint of B) with A # B returns success = false
\* with a reason that names B, fetches no messages and makes no fork call,
\* and the checkpoint stays B's.
C3_OwnershipIsolation ==
    \A i \in 1..Len(calls) :
        (/\ calls[i].op = "restore"
         /\ calls[i].checkpoint # NULL
         /\ calls[i].checkpoint.sessionId # calls[i].sessionId) =>
            /\ calls[i].pc = "done"
            /\ ~calls[i].threw
            /\ ~calls[i].result.success
            /\ Contains(calls[i].result.error, calls[i].checkpoint.sessionId)
            /\ calls[i].fetches = 0
            /\ calls[i].forkCalls = <<>>
            /\ \A c \in checkpoints :
                 c.id = calls[i].checkpointId =>
                     c.sessionId = calls[i].checkpoint.sessionId

\* a restore was called with the id of another session's checkpoint, which
\* is still in the store
C3_Witness ==
    \E i \in 1..Len(calls) :
        /\ calls[i].op = "restore"
        /\ calls[i].pc = "done"
        /\ \E c \in checkpoints :
             /\ c.id = calls[i].checkpointId
             /\ c.sessionId # calls[i].sessionId

\* C4: restore with an id that is not in the store returns (does not throw)
\* success = false with a "not found" reason, fetches no messages and makes
\* no fork call.
C4_NotFound ==
    [][\A i \in 1..Len(calls') :
         (/\ i > Len(calls)
          /\ calls'[i].op = "restore"
          /\ ~\E c \in checkpoints : c.id = calls'[i].checkpointId) =>
             /\ calls'[i].pc = "done"
             /\ ~calls'[i].threw
             /\ calls'[i].result # NULL
             /\ ~calls'[i].result.success
             /\ Contains(calls'[i].result.error, "not found")
             /\ calls'[i].fetches = 0
             /\ calls'[i].forkCalls = <<>>]_vars

\* a restore was called with the id of a deleted checkpoint
C4_Witness ==
    \E i \in 1..Len(calls) :
        /\ calls[i].op = "restore"
        /\ calls[i].pc = "done"
        /\ calls[i].checkpoint = NULL
        /\ calls[i].checkpointId <= lastId

\* the text of a value a collaborator rejected with
ThrownText(error) == IF error.isError THEN error.message ELSE error.value

\* C5: when the message fetch or the fork call raises an error, restore does
\* not throw; it returns success = false with exactly the error's text, and
\* the failing call is not made again.
C5_CollaboratorFailure ==
    \A i \in 1..Len(calls) :
        (IsRestore(calls[i]) /\ calls[i].thrown # NULL) =>
            /\ calls[i].pc = "done"
            /\ ~calls[i].threw
            /\ ~calls[i].result.success
            /\ calls[i].result.error = ThrownText(calls[i].thrown)
            /\ calls[i].fetches = 1
            /\ Len(calls[i].forkCalls) = (IF calls[i].fetchOk THEN 1 ELSE 0)

\* a fork call of restore was rejected with a value that is not an Error
C5_Witness ==
    \E i \in 1..Len(calls) :
        /\ calls[i].op = "restore"
        /\ calls[i].thrown # NULL
        /\ ~calls[i].thrown.isError
        /\ calls[i].fetchOk
        /\ calls[i].pc = "done"

\* C6: restore, restoreByName and canRestore, succeeding or failing, leave
\* the checkpoint records and the messages of every session as they are.
C6_NonDestructive ==
    [][calls' # calls => UNCHANGED <<checkpoints, lastId, messages>>]_vars

\* a restore has forked a session that has more messages than the checkpoint
\* counts, the checkpoint being still in the store
C6_Witness ==
    \E i \in 1..Len(calls) :
        /\ IsRestore(calls[i])
        /\ calls[i].pc = "done"
        /\ calls[i].result.success
        /\ calls[i].checkpoint \in checkpoints
        /\ Len(messages[calls[i].sessionId]) > calls[i].checkpoint.messageCount

C8_ZeroCount ==
    \A i \in 1..Len(calls) :
        (/\ IsRestore(calls[i])
         /\ calls[i].fetchOk
         /\ calls[i].checkpoint.messageCount = 0
         /\ Len(calls[i].fetched) >= 1) =>
            /\ Len(calls[i].forkCalls) = 1
            /\ calls[i].forkCalls[1].messageId = calls[i].fetched[1]
            /\ (calls[i].pc = "done" /\ calls[i].thrown = NULL) =>
                   calls[i].result.success

\* the rows a name stands for in a session
Named(sessionId, name) ==
    {c \in checkpoints : c.sessionId = sessionId /\ c.name = name}

C10_SuccessResult ==
    \A i \in 1..Len(calls) :
        (/\ IsRestore(calls[i])
         /\ calls[i].pc = "done"
         /\ ~calls[i].threw
         /\ calls[i].result.success) =>
            /\ calls[i].forked # NULL
            /\ calls[i].result =
                 [success |-> TRUE,
                  checkpointId |-> calls[i].checkpointId,
                  checkpointName |-> calls[i].checkpoint.name,
                  newSessionId |-> calls[i].forked.id,
                  messageCount |-> calls[i].checkpoint.messageCount]

\* a restore has succeeded with more live messages than the checkpoint counts
C10_Witness ==
    \E i \in 1..Len(calls) :
        /\ calls[i].op = "restore"
        /\ calls[i].pc = "done"
        /\ calls[i].result.success
        /\ Len(calls[i].fetched) > calls[i].checkpoint.messageCount

----------------------------------------------------------------------------
(* Properties of the checkpoint store *)

\* the calls of the store that have returned and not been taken
StoreCalls(op) == {i \in 1..Len(calls) : calls[i].op = op}

\* what a reader of the row expects for an optional field of the input
Given(data, field) ==
    IF field \in DOMAIN data THEN Text(data[field]) ELSE NULL

\* JSON.parse of the text of an object of at most one key, its value a
\* string without quotes
JSONParse(text) ==
    LET quotes == {i \in 1..Len(text) : SubSeq(text, i, i) = "\""}
        After(n) == CHOOSE i \in quotes :
                       /\ i > n
                       /\ \A j \in quotes : j > n => i <= j
        q1 == After(0)
        q2 == After(q1)
        q3 == After(q2)
        q4 == After(q3)
    IN  IF quotes = {}
        THEN <<>>
        ELSE [k \in {SubSeq(text, q1 + 1, q2 - 1)} |->
                SubSeq(text, q3 + 1, q4 - 1)]

\* C11 as stated: the record that get(id) returns after create(...) returned
\* id has the sessionId, name, description, messageCount, gitCommit and
\* metadata given at creation, and a record stays as it is until its id is
\* deleted, whatever is created or deleted meanwhile.
C11_IdempotentLookup ==
    /\ [](\A i \in StoreCalls("createCheckpoint") :
            LET data == calls[i].arg
                row == getCheckpoint(calls[i].result)
            IN  /\ row # NULL
                /\ row.id = calls[i].result
                /\ row.sessionId = data.sessionId
                /\ row.name = data.name
                /\ row.messageCount = data.messageCount
                /\ row.description = Given(data, "description")
                /\ row.gitCommit = Given(data, "gitCommit")
                /\ JSONParse(row.metadata) =
                     (IF "metadata" \in DOMAIN data
                      THEN data.metadata ELSE <<>>))
    /\ [][\A c \in checkpoints :
            \/ c \in checkpoints'
            \/ ~\E d \in checkpoints' : d.id = c.id]_vars

\* C12: ids are unique; a newly assigned id is greater than every id
\* assigned before (lastId is the largest of them, and never falls), also
\* after rows were deleted; a create returns the id of its row, one more than
\* the id the create before it returned.
C12_IdsIncrease ==
    /\ [](\A c, d \in checkpoints : c.id = d.id => c = d)
    /\ [](\A c \in checkpoints : c.id <= lastId)
    /\ [][lastId' >= lastId]_vars
    /\ [][\A c \in checkpoints' \ checkpoints :
            /\ c.id > lastId
            /\ \A d \in checkpoints : d.id < c.id
            /\ lastId' = c.id
            /\ \E i \in 1..Len(calls') :
                 /\ calls'[i].op = "createCheckpoint"
                 /\ calls'[i].result = c.id
                 /\ calls'[i].result = lastId + 1]_vars
    /\ [][lastId' # lastId => checkpoints' \ checkpoints # {}]_vars

\* a create has returned an id after the row of the largest id so far was
\* deleted
C12_Witness ==
    \E i \in StoreCalls("createCheckpoint") :
        /\ calls[i].result >= 2
        /\ ~\E c \in checkpoints : c.id = calls[i].result - 1

\* the arguments a lookup is tried with: a session and a name no row has
\* among them
LookupSessions == Sessions \cup {"s3"}
LookupNames == Names \cup {"CP"}

\* C13: findCheckpointByName returns only rows of exactly the session and
\* the name asked for, nothing when no row matches, and otherwise a matching
\* row of the largest createdAt.
C13_NameResolution ==
    \A s \in LookupSessions, n \in LookupNames :
        LET found == findCheckpointByName(s, n)
            matching == {c \in checkpoints : c.sessionId = s /\ c.name = n}
        IN  /\ found \subseteq matching
            /\ found = {} <=> matching = {}
            /\ \A r \in found : \A c \in matching : c.createdAt <= r.createdAt

\* a session holds two rows of one name from different times, next to a
\* later row of the same name in another session
C13_Witness ==
    \E c, d, e \in checkpoints :
        /\ c.sessionId = d.sessionId /\ c.name = d.name
        /\ c.createdAt < d.createdAt
        /\ e.sessionId # c.sessionId /\ e.name = c.name
        /\ e.createdAt >= d.createdAt
        /\ findCheckpointByName(c.sessionId, c.name) = {d}

\* C14 as stated: of the rows of one session and one name, findCheckpointByName
\* returns the one created last, the one of the largest id, whatever
\* their creation times.
C14_LastCreatedWins ==
    \A s \in Sessions, n \in Names :
        \A r \in findCheckpointByName(s, n) :
            \A c \in checkpoints :
                c.sessionId = s /\ c.name = n => c.id <= r.id

\* C15: every sequence listCheckpoints returns is non-increasing by
\* createdAt.
C15_ListOrdered ==
    \A s \in LookupSessions, limit \in {1, 2, DefaultLimit} :
        \A q \in listCheckpoints(s, limit) :
            \A i, j \in 1..Len(q) : i < j => q[i].createdAt >= q[j].createdAt

\* a session lists three rows of two different times
C15_Witness ==
    \E s \in Sessions :
        \E q \in listCheckpoints(s, DefaultLimit) :
            /\ Len(q) = 3
            /\ q[1].createdAt > q[3].createdAt

\* C16 as stated: rows of equal createdAt are listed in non-increasing id
\* order.
C16_TiesByIdDesc ==
    \A s \in Sessions :
        \A q \in listCheckpoints(s, DefaultLimit) :
            \A i, j \in 1..Len(q) :
                i < j /\ q[i].createdAt = q[j].createdAt => q[i].id >= q[j].id

\* the limits a listing is tried with
Limits == {-1, 0, 1, 2, DefaultLimit}

Min(a, b) == IF a <= b THEN a ELSE b

SessionRows(s) == {c \in checkpoints : c.sessionId = s}

\* q holds rows of session s only, each once, and no row left out is newer
\* than a row listed
FirstOfSession(q, s) ==
    /\ \A i \in 1..Len(q) : q[i] \in SessionRows(s)
    /\ \A i, j \in 1..Len(q) : i # j => q[i] # q[j]
    /\ \A c \in SessionRows(s) \ {q[i] : i \in 1..Len(q)} :
           \A i \in 1..Len(q) : q[i].createdAt >= c.createdAt

\* C17 as stated: listCheckpoints(s, limit) returns exactly min(limit, n)
\* rows of the n the session has, whatever the limit.
C17_MinLimit ==
    \A s \in LookupSessions, limit \in Limits :
        \A q \in listCheckpoints(s, limit) :
            /\ FirstOfSession(q, s)
            /\ Len(q) = Min(limit, Cardinality(SessionRows(s)))

\* C17: listCheckpoints(s, limit) returns rows of session s only, the first
\* ones in listing order: min(limit, n) of the n the session has when
\* the limit is not negative, and all n when it is negative; the limit is 50
\* when none is given; a session without rows lists nothing.
C17_LimitCaps ==
    \A s \in LookupSessions, limit \in Limits :
        \A q \in listCheckpoints(s, limit) :
            LET n == Cardinality(SessionRows(s))
            IN  /\ FirstOfSession(q, s)
                /\ limit >= 0 => Len(q) = Min(limit, n)
                /\ limit < 0 => Len(q) = n
                /\ limit = DefaultLimit /\ n <= 50 => Len(q) = n
                /\ n = 0 => q = <<>>

\* a session with three rows, next to a row of another session, lists two
\* of them under limit 2
C17_Witness ==
    \E s \in Sessions :
        /\ Cardinality(SessionRows(s)) = 3
        /\ \E q \in listCheckpoints(s, 2) : Len(q) = 2
        /\ \E q \in listCheckpoints(s, -1) : Len(q) = 3

\* the store call that returns in this step
ReturnsNow(op) ==
    /\ Len(calls') = Len(calls) + 1
    /\ calls'[Len(calls')].op = op

\* C18: deleteCheckpoint(id) returns true exactly when a row of that id
\* existed; afterwards no row has that id (not by id, not in a listing, not
\* by name), every other row is kept as it was, and without such a row the
\* store is unchanged.
C18_Delete ==
    [][\A id \in 1..(MaxStored + 1) :
          ReturnsNow("deleteCheckpoint") /\ calls'[Len(calls')].arg = id =>
          LET existed == \E c \in checkpoints : c.id = id
          IN  /\ calls'[Len(calls')].result = existed
              /\ getCheckpoint(id)' = NULL
              /\ \A s \in Sessions : \A q \in listCheckpoints(s, -1)' :
                     \A i \in 1..Len(q) : q[i].id # id
              /\ \A s \in Sessions, n \in Names :
                     \A r \in findCheckpointByName(s, n)' : r.id # id
              /\ \A c \in checkpoints : c.id # id => c \in checkpoints'
              /\ checkpoints' \subseteq checkpoints
              /\ ~existed => checkpoints' = checkpoints]_vars

\* deleteCheckpoint has returned true and other rows are still stored
C18_Witness ==
    \E i \in StoreCalls("deleteCheckpoint") :
        /\ calls[i].result = TRUE
        /\ Cardinality(checkpoints) = 2
        /\ \A c \in checkpoints : c.id # calls[i].arg

\* C19: deleteSessionCheckpoints(s) removes every row of session s and no
\* other, returns the number of rows removed, and leaves the listing of s
\* empty; for a session without rows it returns 0 and changes nothing.
C19_CascadeDelete ==
    [][\A s \in Sessions :
          ReturnsNow("deleteSessionCheckpoints") /\ calls'[Len(calls')].arg = s =>
          LET removed == {c \in checkpoints : c.sessionId = s}
          IN  /\ checkpoints' = checkpoints \ removed
              /\ calls'[Len(calls')].result = Cardinality(removed)
              /\ listCheckpoints(s, DefaultLimit)' = {<<>>}
              /\ removed = {} =>
                     /\ calls'[Len(calls')].result = 0
                     /\ checkpoints' = checkpoints]_vars

\* deleteSessionCheckpoints has removed two rows and left a row of another
\* session
C19_Witness ==
    \E i \in StoreCalls("deleteSessionCheckpoints") :
        /\ calls[i].result = 2
        /\ checkpoints # {}
        /\ \A c \in checkpoints : c.sessionId # calls[i].arg

\* C20: totalCheckpoints is the number of rows stored and totalSessions the
\* number of sessions that have a row; an empty store gives 0 and 0.
C20_Stats ==
    /\ getStats.totalCheckpoints = Cardinality({c.id : c \in checkpoints})
    /\ getStats.totalSessions =
           Cardinality({s \in Sessions : SessionRows(s) # {}})
    /\ checkpoints = {} =>
           getStats.totalCheckpoints = 0 /\ getStats.totalSessions = 0

\* a session has lost all its rows to deleteCheckpoint and another session
\* still has two
C20_Witness ==
    /\ \E i \in StoreCalls("deleteCheckpoint") : calls[i].result = TRUE
    /\ getStats.totalCheckpoints = 2
    /\ getStats.totalSessions = 1

----------------------------------------------------------------------------
(* Properties of the records *)

\* C21: a row keeps every field from its creation to its deletion, and the
\* set of rows changes only by a create, which adds one row, or by a delete
\* of one id or of one session, which removes rows; no step of the resolver
\* or of the host changes it.
C21_Immutable ==
    [][/\ \A c \in checkpoints : \A d \in checkpoints' : d.id = c.id => d = c
       /\ checkpoints' # checkpoints =>
            /\ UNCHANGED <<messages, msgSeq, forkSeq, calls>>
            /\ \/ /\ checkpoints \subseteq checkpoints'
                  /\ Cardinality(checkpoints' \ checkpoints) = 1
               \/ \E id \in CheckpointIds :
                    checkpoints' = {c \in checkpoints : c.id # id}
               \/ \E s \in Sessions :
                    checkpoints' = {c \in checkpoints : c.sessionId # s}]_vars

\* a row read by a restore that has since forked a session is in the store
\* as it was read, the session having grown meanwhile
C21_Witness ==
    \E i \in 1..Len(calls) :
        /\ calls[i].op = "restore"
        /\ calls[i].pc = "done"
        /\ calls[i].result.success
        /\ calls[i].checkpoint \in checkpoints
        /\ Len(messages[calls[i].sessionId]) > Len(calls[i].fetched)

\* C22 as stated: every stored row has a non-empty sessionId, a non-empty
\* name and a messageCount that is not negative.
C22_DataModel ==
    \A c \in checkpoints :
        /\ c.sessionId # ""
        /\ c.name # ""
        /\ c.messageCount >= 0

----------------------------------------------------------------------------
(* Properties of the plugin *)

\* the call made in this step
CallMade == calls'[Len(calls')]

Calling == Len(calls') = Len(calls) + 1

\* the reference is the id of a checkpoint of the session
ResolvesAsId(sessionId, reference) ==
    /\ parseInt(reference) # <<>>
    /\ \E c \in checkpoints :
         c.id = parseInt(reference)[1] /\ c.sessionId = sessionId

\* C23 as stated: a reference that is the name of a checkpoint of the
\* session, and not the id of one, makes checkpoint_restore restore a
\* checkpoint of that name.
C23_ReferenceResolution ==
    [][\A s \in Sessions, r \in References :
         (/\ Calling
          /\ "reference" \in DOMAIN CallMade
          /\ CallMade.reference = r
          /\ CallMade.sessionId = s
          /\ NameMatches(s, r) # {}
          /\ ~ResolvesAsId(s, r))
         => CallMade.checkpoint \in NameMatches(s, r)]_vars

\* C24: the handler of a session.deleted event of session s leaves no row of
\* s in the store and every row of every other session as it was; the
\* handler of any other event leaves the store as it was.
C24_SessionDeleted ==
    [][\A type \in EventTypes, s \in Sessions :
         (/\ Calling
          /\ CallMade.op = "event"
          /\ CallMade.arg = [type |-> type, sessionId |-> s])
         => IF type = "session.deleted"
            THEN /\ \A c \in checkpoints' : c.sessionId # s
                 /\ \A c \in checkpoints : c.sessionId # s => c \in checkpoints'
                 /\ checkpoints' \subseteq checkpoints
            ELSE checkpoints' = checkpoints]_vars

\* a session.deleted event has been handled with two rows inserted before:
\* the row of another session is left
C24_Witness ==
    /\ lastId = 2
    /\ Cardinality(checkpoints) = 1
    /\ \E i \in 1..Len(calls) :
         /\ calls[i].op = "event"
         /\ calls[i].arg.type = "session.deleted"
         /\ \A c \in checkpoints : c.sessionId # calls[i].arg.sessionId

\* C29 as stated: the row stored by checkpoint_create has the number of
\* messages the session had when it was stored, whether the message fetch
\* resolved or was rejected.
C29_CurrentCount ==
    \A i \in 1..Len(calls) :
        (calls[i].op = "checkpoint_create" /\ calls[i].pc = "done") =>
            \A c \in checkpoints :
                c.id = calls[i].result.checkpointId =>
                    c.messageCount = calls[i].live

\* C30 as stated: a checkpoint stored by checkpoint_create for a session
\* that had a message stays restorable while the session only grows:
\* canRestore is valid, and restore, its fetch resolved, makes the fork call
\* at the message that was the last one when the checkpoint was stored.
C30_AppendOnlyRestorable ==
    \A i, j \in 1..Len(calls) :
        (/\ calls[i].op = "checkpoint_create" /\ calls[i].pc = "done"
         /\ calls[i].live >= 1
         /\ calls[j].op \in {"restore", "restoreByName", "canRestore"}
         /\ calls[j].checkpoint # NULL
         /\ calls[j].checkpoint.id = calls[i].result.checkpointId
         /\ calls[j].sessionId = calls[i].sessionId
         /\ calls[j].fetchOk)
        => IF calls[j].op = "canRestore"
           THEN calls[j].result.valid
           ELSE /\ Len(calls[j].forkCalls) = 1
                /\ calls[j].forkCalls[1].messageId
                     = calls[j].fetched[calls[i].live]

----------------------------------------------------------------------------
(* Properties of the course of a call *)

\* the steps a restore call has taken are in order
InOrder(call) ==
    /\ call.fetches <= 1
    /\ Len(call.forkCalls) <= 1
    /\ call.fetches = 1 =>
         /\ call.checkpoint # NULL
         /\ call.checkpoint.sessionId = call.sessionId
    /\ Len(call.forkCalls) = 1 => call.fetches = 1 /\ call.fetchOk
    /\ call.pc = "messages" => call.fetches = 1 /\ ~call.fetchOk
    /\ call.pc = "fork" => Len(call.forkCalls) = 1 /\ call.forked = NULL
    /\ call.pc \in {"messages", "fork"} => call.result = NULL
    /\ (call.result # NULL /\ ~call.result.success) =>
         /\ call.pc = "done"
         /\ call.forked = NULL
         /\ call.checkpoint = NULL => call.fetches = 0
         /\ ~call.fetchOk => call.forkCalls = <<>>
    /\ (call.result # NULL /\ call.result.success) =>
         /\ call.pc = "done"
         /\ call.fetchOk /\ call.forked # NULL /\ call.thrown = NULL

\* C25: in one restore call the lookup and the ownership check come before
\* the message fetch and the fetch before the fork, each is made at most
\* once, the call only moves forward, and a failure ends the call at once:
\* no step runs after it.
C25_SinglePass ==
    /\ [](\A i \in 1..Len(calls) : IsRestore(calls[i]) => InOrder(calls[i]))
    /\ [][\A i \in 1..Len(calls) :
            (Len(calls') = Len(calls) /\ IsRestore(calls[i])) =>
                /\ calls[i].pc = "messages" =>
                     calls'[i].pc \in {"messages", "fork", "done"}
                /\ calls[i].pc = "fork" => calls'[i].pc \in {"fork", "done"}
                /\ calls[i].pc = "done" => calls'[i] = calls[i]
                /\ calls'[i].fetches = calls[i].fetches
                /\ calls'[i].thrown # calls[i].thrown =>
                     /\ calls'[i].pc = "done"
                     /\ calls'[i].forkCalls = calls[i].forkCalls]_vars

\* a restore has failed at the boundary check: its fetch resolved and no fork
\* call was made
C25_Witness ==
    \E i \in 1..Len(calls) :
        /\ calls[i].op = "restore"
        /\ calls[i].pc = "done"
        /\ calls[i].fetchOk
        /\ ~calls[i].result.success
        /\ calls[i].forkCalls = <<>>
        /\ calls[i].thrown = NULL

IsPrefix(p, q) == Len(p) <= Len(q) /\ \A k \in 1..Len(p) : p[k] = q[k]

\* C26: however the steps of racing restore calls interleave, no step of a
\* call changes the store or the messages of a session: the row a call has
\* read is in the store as it was read, and what a call has fetched is still
\* the beginning of the source session; calls that succeed have each their
\* own forked session, none of them the source session.
C26_RacingRestores ==
    /\ [][calls' # calls => UNCHANGED <<checkpoints, lastId, messages>>]_vars
    /\ [](\A i \in 1..Len(calls) :
            /\ calls[i].checkpoint # NULL => calls[i].checkpoint \in checkpoints
            /\ IsPrefix(calls[i].fetched, messages[calls[i].sessionId]))
    /\ [](\A i, j \in 1..Len(calls) :
            (/\ calls[i].pc = "done" /\ calls[i].result.success
             /\ calls[j].pc = "done" /\ calls[j].result.success
             /\ i # j)
            => /\ calls[i].result.newSessionId # calls[j].result.newSessionId
               /\ calls[i].result.newSessionId # calls[i].sessionId)

\* two calls on one session have both succeeded, the call made second having
\* been forked first
C26_Witness ==
    /\ Len(calls) = 2
    /\ calls[1].sessionId = calls[2].sessionId
    /\ calls[1].pc = "done" /\ calls[1].result.success
    /\ calls[2].pc = "done" /\ calls[2].result.success
    /\ calls[1].fetchOk /\ calls[2].fetchOk
    /\ calls[1].result.newSessionId = ForkedSessionId(2)
    /\ calls[2].result.newSessionId = ForkedSessionId(1)

\* what canRestore is to return, fetchReason being the reason it is to give
\* for the value its message fetch was rejected with
DryRun(call, fetchReason) ==
    /\ call.forkCalls = <<>>
    /\ call.forked = NULL
    /\ ~call.threw
    /\ call.pc = "done" =>
         /\ call.checkpoint = NULL => ~call.result.valid
         /\ (call.checkpoint # NULL
               /\ call.checkpoint.sessionId # call.sessionId) =>
                ~call.result.valid
         /\ (call.fetchOk
               /\ Len(call.fetched) < call.checkpoint.messageCount) =>
                /\ ~call.result.valid
                /\ Contains(call.result.reason,
                            NumberToString(Len(call.fetched)))
                /\ Contains(call.result.reason,
                            NumberToString(call.checkpoint.messageCount))
         /\ call.thrown # NULL =>
                /\ ~call.result.valid
                /\ call.result.reason = fetchReason
         /\ ~call.result.valid => call.result.reason # ""
         /\ call.result.valid => DOMAIN call.result = {"valid"}

\* a canRestore call for a missing checkpoint or for the checkpoint of
\* another session returns at once
DryRunLookup ==
    \A s \in Sessions, id \in CheckpointIds :
        (/\ Calling
         /\ CallMade.op = "canRestore"
         /\ CallMade.sessionId = s /\ CallMade.checkpointId = id
         /\ \/ getCheckpoint(id) = NULL
            \/ getCheckpoint(id).sessionId # s)
        => CallMade.pc = "done" /\ ~CallMade.result.valid

OneLine(text) == text # "" /\ ~Contains(text, "\n")

\* C28 as stated: a Result of restore or restoreByName has either success =
\* true, no error and the id of the forked session, or success = false, an
\* empty newSessionId and a reason that is not empty and is one line,
\* whatever made the call fail.
C28_OneLineReason ==
    \A i \in 1..Len(calls) :
        (IsRestore(calls[i]) /\ calls[i].pc = "done") =>
            IF calls[i].result.success
            THEN /\ "error" \notin DOMAIN calls[i].result
                 /\ calls[i].result.newSessionId = calls[i].forked.id
            ELSE /\ calls[i].result.newSessionId = ""
                 /\ OneLine(calls[i].result.error)

\* the message ids of a sequence
Ids(msgs) == {msgs[k] : k \in 1..Len(msgs)}

\* C31: every fork call of a restore is made after its fetch resolved, for
\* the session of the call and at a message of the sequence fetched; a
\* restore whose fetch gave no message at the position of the count has
\* failed without a fork call.
C31_ForkHasBoundary ==
    \A i \in 1..Len(calls) :
        IsRestore(calls[i]) =>
            /\ \A k \in 1..Len(calls[i].forkCalls) :
                 /\ calls[i].fetchOk
                 /\ calls[i].forkCalls[k].sessionId = calls[i].sessionId
                 /\ calls[i].forkCalls[k].messageId \in Ids(calls[i].fetched)
            /\ (/\ calls[i].fetchOk
                /\ calls[i].checkpoint.messageCount
                     \notin 1..Len(calls[i].fetched))
               => /\ calls[i].forkCalls = <<>>
                  /\ calls[i].pc = "done"
                  /\ ~calls[i].result.success

\* a fork call is pending at the first of two messages fetched
C31_Witness ==
    \E i \in 1..Len(calls) :
        /\ calls[i].op = "restore"
        /\ calls[i].pc = "fork"
        /\ Len(calls[i].fetched) = 2
        /\ calls[i].forkCalls[1].messageId = calls[i].fetched[1]

\* the rows that sessions other than s own
OwnedByOthers(rows, s) == {c \in rows : c.sessionId # s}

\* C35 as stated: a call of checkpoint_create or checkpoint_delete made in
\* a session, and the completion of such a call, leave the rows owned by
\* every other session as they were.
C35_SessionIsolation ==
    [][\A s \in Sessions :
         (\/ /\ Calling
             /\ CallMade.op \in {"checkpoint_create", "checkpoint_delete"}
             /\ CallMade.sessionId = s
          \/ \E i \in 1..Len(calls) :
               /\ Len(calls') = Len(calls)
               /\ calls[i].op = "checkpoint_create"
               /\ calls[i].sessionId = s
               /\ calls'[i] # calls[i])
         => OwnedByOthers(checkpoints', s) = OwnedByOthers(checkpoints, s)]_vars

\* C36 as stated: the request the adapter makes of the host for a fork call
\* of restore carries the source session id, the boundary message id and the
\* title "Restored: " followed by the checkpoint's name.
C36_ForkRequestForwarded ==
    \A i \in 1..Len(calls) :
        IsRestore(calls[i]) =>
            \A k \in 1..Len(calls[i].forkCalls) :
                LET options == calls[i].forkCalls[k]
                    request == sessionClientFork(options)
                IN  /\ options.title = "Restored: " \o calls[i].checkpoint.name
                    /\ request.path.id = calls[i].sessionId
                    /\ request.body.messageID = options.messageId
                    /\ "title" \in DOMAIN request.body
                    /\ request.body.title = options.title

\* C33 as stated: a restore dispatches its fork only while the checkpoint
\* it looked up is still a row of the store, and when it returns
\* success=true the checkpoint named in the result is a row of the store,
\* whatever deleteCheckpoint and deleteSessionCheckpoints calls ran while
\* the restore was suspended.
C33_RestoreOfLive ==
    [][\A i \in 1..Len(calls) :
         (Len(calls') = Len(calls) /\ IsRestore(calls[i]))
         => /\ Len(calls'[i].forkCalls) > Len(calls[i].forkCalls)
               => \E c \in checkpoints : c.id = calls[i].checkpointId
            /\ (/\ calls[i].pc # "done"
                /\ calls'[i].pc = "done"
                /\ calls'[i].result.success)
               => \E c \in checkpoints' :
                      c.id = calls'[i].result.checkpointId]_vars

\* a restoreByName call whose name lookup found a row
Resolved(call) == call.op = "restoreByName" /\ call.checkpointId # 0

\* C34: a restoreByName call whose name resolved holds the row of that id, a
\* row of the calling session with that name, whatever deletes run around
\* it; when it fails, it fails with the value thrown by the message fetch or
\* by the fork, with too few messages, or with no message at the boundary.
C34_ResolvesAtomically ==
    \A i \in 1..Len(calls) :
        Resolved(calls[i]) =>
            LET call == calls[i]
            IN  /\ call.checkpoint # NULL
                /\ call.checkpoint.id = call.checkpointId
                /\ call.checkpoint.sessionId = call.sessionId
                /\ call.checkpoint.name = call.checkpointName
                /\ (call.pc = "done" /\ ~call.result.success) =>
                     \/ /\ call.thrown # NULL
                        /\ call.result = CaughtResult(call.checkpointId,
                                             call.checkpoint, call.thrown)
                     \/ /\ call.thrown = NULL
                        /\ call.fetchOk
                        /\ call.forkCalls = <<>>
                        /\ call.result \in
                             {TooFewMessagesResult(call.checkpointId,
                                  call.checkpoint, call.fetched),
                              NoTargetResult(call.checkpointId,
                                  call.checkpoint)}

\* a restoreByName call that resolved has returned after its checkpoint was
\* deleted
C34_Witness ==
    \E i \in 1..Len(calls) :
        /\ Resolved(calls[i])
        /\ calls[i].pc = "done"
        /\ \A c \in checkpoints : c.id # calls[i].checkpointId

\* a call of restore, restoreByName or canRestore has not returned
Pending == \E i \in 1..Len(calls) : calls[i].pc # "done"

\* a call has returned its result
HasReturned ==
    \E i \in 1..Len(calls) : calls[i].pc = "done" /\ calls[i].result # NULL

\* C37: with a collaborator that resolves or rejects every message fetch and
\* every fork issued to it, every call of restore, restoreByName and
\* canRestore that has not returned eventually returns a result.
C37_Termination == Pending ~> HasReturned

\* a restore has returned its result after its fetch resolved and its fork
\* was rejected
C37_Witness ==
    \E i \in 1..Len(calls) :
        /\ IsRestore(calls[i])
        /\ calls[i].pc = "done"
        /\ calls[i].result # NULL
        /\ calls[i].fetchOk
        /\ Len(calls[i].forkCalls) = 1
        /\ calls[i].thrown \in Thrown

\* the number of lines a text has, each ended by a line feed
LineCount(text) ==
    Cardinality({k \in 1..Len(text) : SubSeq(text, k, k) = "\n"})

\* the text begins with the prefix
StartsWith(text, prefix) ==
    Len(text) >= Len(prefix) /\ SubSeq(text, 1, Len(prefix)) = prefix

\* C32 as stated: called in a session of n checkpoints, n > 0,
\* checkpoint_list returns a table that reports the count n in its title
\* and has one row for each of the n checkpoints, under the title, an empty
\* line and the two lines of the table's head.
C32_ListsAll ==
    [][\A s \in Sessions :
         (/\ Calling
          /\ CallMade.op = "checkpoint_list"
          /\ CallMade.sessionId = s)
         => LET n == Cardinality({c \in checkpoints : c.sessionId = s})
            IN  n > 0 =>
                  /\ StartsWith(CallMade.result,
                         "Checkpoints (" \o NumberToString(n) \o "):\n")
                  /\ LineCount(CallMade.result) = n + 4]_vars

====
